---- MODULE Spec2Model ----
(***************************************************************************)
(* A model of the BadgerDB buffer manager BufMgr of src/src/buffer.cpp     *)
(* (the complete variant, lines 189-428): the frame descriptor table, the  *)
(* frame storage, the page directory (hashTable), the clock hand and the   *)
(* five public operations, each one atomic step (the manager is            *)
(* single-threaded and every call runs to completion).                     *)
(*                                                                         *)
(* BufDesc::Set / BufDesc::clear and BufHashTbl live in buffer.h and       *)
(* bufHashTbl.cpp, which are not among the sources; they are modelled from *)
(* the specification's sections 4.1 and 4.2.  The File collaborator is     *)
(* modelled from section 6.                                                *)
(***************************************************************************)
EXTENDS Integers, Sequences, FiniteSets, TLC

\* ------------------------------------------------------------------ bounds
\* Largest pool size bufs handed to the constructor.
MaxBufs == 2
\* Number of distinct files the callers use.
NumFiles == 2
\* Page numbers a file can hold are 1..MaxPage.
MaxPage == 2
\* Callers hold at most MaxPin pins on one frame.
MaxPin == 2

\* Pool size of the eviction scenario of the specification (section 8).
ScenarioBufs == 3

\* The file of a cleared descriptor (no file) and Page::INVALID_NUMBER.
NoFile == 0
InvalidPageNo == 0

Files == 1..NumFiles
PageIds == 1..MaxPage
Keys == Files \X PageIds

VARIABLES
  numBufs,       \* pool size, fixed at construction
  bufDescTable,  \* frame -> descriptor
  bufPool,       \* frame -> page number carried by the Page stored there
  hashTable,     \* the page directory: a function from some keys to frames
  clockHand,     \* the clock hand
  filePages,     \* file -> page numbers that exist in the file
  last,          \* what the last completed call did (observation only)
  pc,            \* position in the eviction scenario (scenario only)
  scen           \* the scenario's pages <<A, B, C, D>> (scenario only)

vars == <<numBufs, bufDescTable, bufPool, hashTable, clockHand, filePages, last, pc, scen>>

Frames == 0..(numBufs - 1)

\* ------------------------------------------------- frame descriptor table
\* BufDesc::clear(): every field back to the unoccupied baseline.
ClearedDesc ==
  [valid |-> FALSE, file |-> NoFile, pageNo |-> InvalidPageNo,
   pinCnt |-> 0, refbit |-> FALSE, dirty |-> FALSE]

\* BufDesc::Set(file, pageNo): occupied by (file, pageNo), one pin, referenced, clean.
SetDesc(file, pageNo) ==
  [valid |-> TRUE, file |-> file, pageNo |-> pageNo,
   pinCnt |-> 1, refbit |-> TRUE, dirty |-> FALSE]

\* ------------------------------------------------------- page directory
\* BufHashTbl::lookup succeeds exactly on the keys present.
HashHas(ht, key) == key \in DOMAIN ht

\* BufHashTbl::insert of a key that is absent.
HashInsert(ht, key, f) == [k \in DOMAIN ht \cup {key} |-> IF k = key THEN f ELSE ht[k]]

\* BufHashTbl::remove of a key that is present.
HashRemove(ht, key) == [k \in DOMAIN ht \ {key} |-> ht[k]]

\* --------------------------------------------------------- construction
\* What is kept of the last completed call, for observation only: the operation,
\* how it ended, the page <<file, pageNo>> it handed to its caller (<< >> when
\* none), the frame it handed out, or allocBuf selected, or flushFile stopped at
\* (n when none), the pin count the page had before the call (0 when no frame
\* held it), the hand advances allocBuf made, the writePage calls issued, in
\* order, the number of deletePage calls issued, and whether the call disposed
\* of the page that the call before it had just allocated.
Quiet(op, result, n) ==
  [op |-> op, result |-> result, key |-> << >>, frame |-> n, prePin |-> 0,
   steps |-> 0, writes |-> << >>, deletes |-> 0, roundTrip |-> FALSE]

\* BufMgr::BufMgr(bufs): every frame invalid, the hand on the last frame.
InitPool(bufs) ==
  /\ numBufs = bufs
  /\ bufDescTable = [f \in 0..(bufs - 1) |-> ClearedDesc]
  /\ bufPool = [f \in 0..(bufs - 1) |-> InvalidPageNo]
  /\ hashTable = << >>
  /\ clockHand = bufs - 1
  /\ filePages = [fl \in Files |-> PageIds]
  /\ last = Quiet("BufMgr", "ok", bufs)

\* ------------------------------------------------------------ the clock
\* BufMgr::advanceClock
AdvanceClock(hand, n) == (hand + 1) % n

\* A sweep that runs one iteration too long.
SweepLimitLong(n) == 2 * n + 1

\* A sweep that stops one advance short of two revolutions.
SweepLimitShort(n) == 2 * n - 1

\* A sweep of a single revolution.
SweepLimitOnce(n) == n

\* The number of hand advances one allocBuf call may make.
SweepLimit(n) == 2 * n

\* A victim written back whether dirty or not.
VictimWritesAlways(d, content) == << [file |-> d.file, page |-> content] >>

\* The writePage call allocBuf issues for a victim: none for a clean frame, one
\* for a dirty frame, carrying the frame's content to the frame's file.
VictimWrites(d, content) ==
  IF d.dirty THEN << [file |-> d.file, page |-> content] >> ELSE << >>

\* The loop of BufMgr::allocBuf from its i-th iteration on, on descriptor table
\* desc with the hand at hand.  The result: whether a frame was selected, the
\* frame, the hand, the descriptor table, the number of advances made and the
\* writePage calls issued, in order.
RECURSIVE Sweep(_, _, _, _, _)
Sweep(desc, pool, hand, n, i) ==
  IF i >= SweepLimit(n)
  THEN [ok |-> FALSE, frame |-> n, hand |-> hand, desc |-> desc, steps |-> i, writes |-> << >>]
  ELSE LET h == AdvanceClock(hand, n) IN
       IF ~desc[h].valid
       THEN [ok |-> TRUE, frame |-> h, hand |-> h, desc |-> desc, steps |-> i + 1,
             writes |-> << >>]
       ELSE IF desc[h].refbit
       THEN Sweep([desc EXCEPT ![h].refbit = FALSE], pool, h, n, i + 1)
       ELSE IF desc[h].pinCnt = 0
       THEN [ok |-> TRUE, frame |-> h, hand |-> h, desc |-> desc, steps |-> i + 1,
             writes |-> VictimWrites(desc[h], pool[h])]
       ELSE Sweep(desc, pool, h, n, i + 1)

\* BufMgr::allocBuf
AllocBuf == Sweep(bufDescTable, bufPool, clockHand, numBufs, 0)

\* The frames whose descriptor says they hold page (file, pageNo).
Holders(desc, file, pageNo) ==
  {f \in DOMAIN desc : desc[f].valid /\ desc[f].file = file /\ desc[f].pageNo = pageNo}

\* The pin count of page (file, pageNo): that of the frame holding it, 0 when none does.
PinOf(desc, file, pageNo) ==
  IF Holders(desc, file, pageNo) = {} THEN 0
  ELSE desc[CHOOSE f \in Holders(desc, file, pageNo) : TRUE].pinCnt

\* What allocBuf outcome r adds to the record of a call.
Swept(obs, r) == [obs EXCEPT !.frame = r.frame, !.steps = r.steps, !.writes = r.writes]

\* What a call that hands page (file, pageNo) in frame f to its caller adds.
Handed(obs, file, pageNo, f) ==
  [obs EXCEPT !.key = <<file, pageNo>>, !.frame = f,
              !.prePin = PinOf(bufDescTable, file, pageNo)]

\* --------------------------------------------------------------- readPage
\* A hit that sets the pin count to 1 instead of adding a pin.
HitDescReset(d) == [d EXCEPT !.refbit = TRUE, !.pinCnt = 1]

\* The descriptor after a directory hit of readPage: refbit set, one more pin.
HitDesc(d) == [d EXCEPT !.refbit = TRUE, !.pinCnt = d.pinCnt + 1]

\* BufMgr::readPage.  Directory hit: set refbit, one more pin, hand out the
\* frame.  Miss: allocBuf, file.readPage, insert, Set; allocBuf may throw
\* BufferExceededException and file.readPage throws on a page the file does not
\* hold, and both leave what allocBuf did in place.
ReadPage(file, pageNo) ==
  /\ IF HashHas(hashTable, <<file, pageNo>>)
     THEN LET f == hashTable[<<file, pageNo>>] IN
          /\ bufDescTable[f].pinCnt < MaxPin
          /\ bufDescTable' = [bufDescTable EXCEPT ![f] = HitDesc(bufDescTable[f])]
          /\ last' = Handed(Quiet("readPage", "ok", numBufs), file, pageNo, f)
          /\ UNCHANGED <<bufPool, hashTable, clockHand>>
     ELSE LET r == AllocBuf IN
          /\ clockHand' = r.hand
          /\ IF ~r.ok
             THEN /\ bufDescTable' = r.desc
                  /\ last' = Swept(Quiet("readPage", "BufferExceeded", numBufs), r)
                  /\ UNCHANGED <<bufPool, hashTable>>
             ELSE IF pageNo \notin filePages[file]
             THEN /\ bufDescTable' = r.desc
                  /\ last' = Swept(Quiet("readPage", "InvalidPage", numBufs), r)
                  /\ UNCHANGED <<bufPool, hashTable>>
             ELSE /\ hashTable' = HashInsert(hashTable, <<file, pageNo>>, r.frame)
                  /\ bufDescTable' = [r.desc EXCEPT ![r.frame] = SetDesc(file, pageNo)]
                  /\ bufPool' = [bufPool EXCEPT ![r.frame] = pageNo]
                  /\ last' = Handed(Swept(Quiet("readPage", "ok", numBufs), r), file, pageNo, r.frame)
  /\ UNCHANGED <<numBufs, filePages>>

\* -------------------------------------------------------------- unPinPage
\* The descriptor after a successful unPinPage: one pin less, dirty set when passed.
UnPinDesc(d, dirty) ==
  [d EXCEPT !.pinCnt = d.pinCnt - 1, !.dirty = IF dirty THEN TRUE ELSE d.dirty]

\* BufMgr::unPinPage: nothing when the lookup misses, PageNotPinnedException at
\* pin count 0, else one pin less and the dirty bit set when dirty is passed.
UnPinPage(file, pageNo, dirty) ==
  /\ IF ~HashHas(hashTable, <<file, pageNo>>)
     THEN /\ last' = Quiet("unPinPage", "ok", numBufs)
          /\ UNCHANGED bufDescTable
     ELSE LET f == hashTable[<<file, pageNo>>] IN
          IF bufDescTable[f].pinCnt = 0
          THEN /\ last' = Quiet("unPinPage", "PageNotPinned", numBufs)
               /\ UNCHANGED bufDescTable
          ELSE /\ bufDescTable' = [bufDescTable EXCEPT ![f] = UnPinDesc(bufDescTable[f], dirty)]
               /\ last' = Quiet("unPinPage", "ok", numBufs)
  /\ UNCHANGED <<numBufs, bufPool, hashTable, clockHand, filePages>>

\* -------------------------------------------------------------- allocPage
\* BufMgr::allocPage with file.allocatePage() handing out newPage: the page is
\* created in the file first, then allocBuf (which may throw), then insert (which
\* throws on a key already present), then Set.
AllocPageAs(file, newPage) ==
  /\ newPage \notin filePages[file]
  /\ filePages' = [filePages EXCEPT ![file] = filePages[file] \cup {newPage}]
  /\ LET r == AllocBuf IN
       /\ clockHand' = r.hand
       /\ IF ~r.ok
          THEN /\ bufDescTable' = r.desc
               /\ last' = Swept(Quiet("allocPage", "BufferExceeded", numBufs), r)
               /\ UNCHANGED <<bufPool, hashTable>>
          ELSE IF HashHas(hashTable, <<file, newPage>>)
          THEN /\ bufDescTable' = r.desc
               /\ last' = Swept(Quiet("allocPage", "HashAlreadyPresent", numBufs), r)
               /\ UNCHANGED <<bufPool, hashTable>>
          ELSE /\ hashTable' = HashInsert(hashTable, <<file, newPage>>, r.frame)
               /\ bufDescTable' = [r.desc EXCEPT ![r.frame] = SetDesc(file, newPage)]
               /\ bufPool' = [bufPool EXCEPT ![r.frame] = newPage]
               /\ last' = Handed(Swept(Quiet("allocPage", "ok", numBufs), r), file, newPage, r.frame)
  /\ UNCHANGED numBufs

\* BufMgr::allocPage: the file picks the number of the new page.
AllocPage(file) == \E newPage \in PageIds : AllocPageAs(file, newPage)

\* -------------------------------------------------------------- flushFile
\* Whether flushFile(file) takes the frame of descriptor d for one of the file's.
FlushOwns(d, file) == d.file = file

\* A flush that refuses a frame only from the second pin on.
FlushPinnedLate(d) == d.pinCnt > 1

\* Whether flushFile refuses the frame of descriptor d as pinned.
FlushPinned(d) == d.pinCnt > 0

\* The writePage call flushFile issues for a frame: one for a dirty frame,
\* carrying the frame's content to the frame's file, none for a clean one.
FlushWrites(d, content) ==
  IF d.dirty THEN << [file |-> d.file, page |-> content] >> ELSE << >>

\* The loop of BufMgr::flushFile over the n frames from frame f on.  st carries
\* the descriptor table, the directory, the writePage calls issued, how the scan
\* ended and the frame it stopped at.
RECURSIVE FlushScan(_, _, _, _, _)
FlushScan(st, pool, file, n, f) ==
  IF f >= n THEN st
  ELSE LET d == st.desc[f] IN
       IF ~FlushOwns(d, file) THEN FlushScan(st, pool, file, n, f + 1)
       ELSE IF FlushPinned(d) THEN [st EXCEPT !.result = "PagePinned", !.frame = f]
       ELSE IF ~d.valid THEN [st EXCEPT !.result = "BadBuffer", !.frame = f]
       ELSE LET wrote == [st EXCEPT !.writes = st.writes \o FlushWrites(d, pool[f]),
                                    !.desc[f].dirty = FALSE]
            IN IF ~HashHas(st.ht, <<file, d.pageNo>>)
               THEN [wrote EXCEPT !.result = "HashNotFound", !.frame = f]
               ELSE FlushScan([wrote EXCEPT !.ht = HashRemove(st.ht, <<file, d.pageNo>>),
                                            !.desc[f] = ClearedDesc],
                              pool, file, n, f + 1)

\* The outcome of flushFile(file) in the current state.
Flushed(file) ==
  FlushScan([desc |-> bufDescTable, ht |-> hashTable, writes |-> << >>,
             result |-> "ok", frame |-> numBufs],
            bufPool, file, numBufs, 0)

\* BufMgr::flushFile
FlushFile(file) ==
  LET st == Flushed(file)
  IN /\ bufDescTable' = st.desc
     /\ hashTable' = st.ht
     /\ last' = [Quiet("flushFile", st.result, numBufs) EXCEPT !.frame = st.frame,
                                                                  !.writes = st.writes]
     /\ UNCHANGED <<numBufs, bufPool, clockHand, filePages>>

\* ------------------------------------------------------------ disposePage
\* A dispose that clears the frame and leaves the directory entry in place.
DisposePageKeepEntry(file, pageNo) ==
  /\ IF HashHas(hashTable, <<file, pageNo>>)
     THEN bufDescTable' = [bufDescTable EXCEPT ![hashTable[<<file, pageNo>>]] = ClearedDesc]
     ELSE UNCHANGED bufDescTable
  /\ filePages' = [filePages EXCEPT ![file] = filePages[file] \ {pageNo}]
  /\ last' = [Quiet("disposePage", "ok", numBufs) EXCEPT
                !.deletes = 1,
                !.roundTrip = (last.op = "allocPage" /\ last.result = "ok"
                               /\ last.key = <<file, pageNo>>)]
  /\ UNCHANGED <<numBufs, bufPool, hashTable, clockHand>>

\* A dispose that removes the directory entry only when its frame holds the page.
DisposePageOfHolder(file, pageNo) ==
  /\ IF HashHas(hashTable, <<file, pageNo>>)
        /\ hashTable[<<file, pageNo>>] \in Holders(bufDescTable, file, pageNo)
     THEN /\ bufDescTable' = [bufDescTable EXCEPT ![hashTable[<<file, pageNo>>]] = ClearedDesc]
          /\ hashTable' = HashRemove(hashTable, <<file, pageNo>>)
     ELSE UNCHANGED <<bufDescTable, hashTable>>
  /\ filePages' = [filePages EXCEPT ![file] = filePages[file] \ {pageNo}]
  /\ last' = [Quiet("disposePage", "ok", numBufs) EXCEPT
                !.deletes = 1,
                !.roundTrip = (last.op = "allocPage" /\ last.result = "ok"
                               /\ last.key = <<file, pageNo>>)]
  /\ UNCHANGED <<numBufs, bufPool, clockHand>>

\* BufMgr::disposePage: on a directory hit clear the frame and remove the entry;
\* in every case file.deletePage(pageNo), once.
DisposePage(file, pageNo) ==
  /\ IF HashHas(hashTable, <<file, pageNo>>)
     THEN /\ bufDescTable' = [bufDescTable EXCEPT ![hashTable[<<file, pageNo>>]] = ClearedDesc]
          /\ hashTable' = HashRemove(hashTable, <<file, pageNo>>)
     ELSE UNCHANGED <<bufDescTable, hashTable>>
  /\ filePages' = [filePages EXCEPT ![file] = filePages[file] \ {pageNo}]
  /\ last' = [Quiet("disposePage", "ok", numBufs) EXCEPT
                !.deletes = 1,
                !.roundTrip = (last.op = "allocPage" /\ last.result = "ok"
                               /\ last.key = <<file, pageNo>>)]
  /\ UNCHANGED <<numBufs, bufPool, clockHand>>

\* ---------------------------------------------------------- specification
Init ==
  /\ \E bufs \in 1..MaxBufs : InitPool(bufs)
  /\ pc = 0
  /\ scen = << >>

Next ==
  \/ \E file \in Files, pageNo \in PageIds :
       ReadPage(file, pageNo) /\ UNCHANGED <<pc, scen>>
  \/ \E file \in Files, pageNo \in PageIds, dirty \in BOOLEAN :
       UnPinPage(file, pageNo, dirty) /\ UNCHANGED <<pc, scen>>
  \/ \E file \in Files :
       AllocPage(file) /\ UNCHANGED <<pc, scen>>
  \/ \E file \in Files :
       FlushFile(file) /\ UNCHANGED <<pc, scen>>
  \/ \E file \in Files, pageNo \in PageIds :
       DisposePage(file, pageNo) /\ UNCHANGED <<pc, scen>>

Spec == Init /\ [][Next]_vars

\* ------------------------------------------------------------ the scenario
\* Section 8's eviction scenario on a pool of ScenarioBufs frames: fetch A, B, C,
\* unpin A and B clean and C dirty, fetch D, for any four distinct pages.
ScenInit ==
  /\ InitPool(ScenarioBufs)
  /\ pc = 0
  /\ scen \in {t \in Keys \X Keys \X Keys \X Keys : Cardinality({t[1], t[2], t[3], t[4]}) = 4}

ScenNext ==
  \/ /\ pc \in {0, 1, 2}
     /\ ReadPage(scen[pc + 1][1], scen[pc + 1][2])
     /\ pc' = pc + 1
     /\ UNCHANGED scen
  \/ /\ pc \in {3, 4}
     /\ UnPinPage(scen[pc - 2][1], scen[pc - 2][2], FALSE)
     /\ pc' = pc + 1
     /\ UNCHANGED scen
  \/ /\ pc = 5
     /\ UnPinPage(scen[3][1], scen[3][2], TRUE)
     /\ pc' = pc + 1
     /\ UNCHANGED scen
  \/ /\ pc = 6
     /\ ReadPage(scen[4][1], scen[4][2])
     /\ pc' = pc + 1
     /\ UNCHANGED scen

SpecScenario == ScenInit /\ [][ScenNext]_vars

\* ================================================================== claims
\* The page a valid frame holds, as a directory key.
OwnerKey(d) == <<d.file, d.pageNo>>

\* Whether some frame holds page key.
Resident(key) == Holders(bufDescTable, key[1], key[2]) # {}

\* Whether the call just completed ran allocBuf and was given a frame.
GotFrame(obs) ==
  obs.op \in {"readPage", "allocPage"} /\ obs.steps > 0 /\ obs.result # "BufferExceeded"

\* C1: the directory holds exactly one entry per occupied frame, mapping the
\* frame's owner to the frame, and no entry for an unoccupied frame or an
\* evicted page.
C1_DirectoryConsistency ==
  /\ \A k \in DOMAIN hashTable :
       bufDescTable[hashTable[k]].valid /\ OwnerKey(bufDescTable[hashTable[k]]) = k
  /\ \A f \in Frames :
       bufDescTable[f].valid =>
         /\ HashHas(hashTable, OwnerKey(bufDescTable[f]))
         /\ hashTable[OwnerKey(bufDescTable[f])] = f

\* C2: whenever allocBuf selects a frame, the frame's pin count is 0 at that moment.
C2_NoPinnedVictim ==
  [][GotFrame(last') => bufDescTable[last'.frame].pinCnt = 0]_vars

\* Every frame is occupied and pinned.
AllPinned == \A f \in Frames : bufDescTable[f].valid /\ bufDescTable[f].pinCnt > 0

\* C3: a call advances the hand at most 2N times (and the hand ends where that
\* many advances take it); with all N frames occupied and pinned, allocPage and
\* a readPage miss fail with BufferExceeded after exactly 2N advances.
C3_BoundedSweep ==
  [][/\ last'.steps <= 2 * numBufs
     /\ clockHand' = (clockHand + last'.steps) % numBufs
     /\ (AllPinned /\ last'.op = "allocPage")
          => (last'.result = "BufferExceeded" /\ last'.steps = 2 * numBufs)
     /\ \A file \in Files, pageNo \in PageIds :
          (AllPinned /\ ~HashHas(hashTable, <<file, pageNo>>) /\ ReadPage(file, pageNo))
            => (last'.result = "BufferExceeded" /\ last'.steps = 2 * numBufs)]_vars

\* C3's case: a call failed with BufferExceeded on a pool of at least two
\* frames, all of them occupied and pinned.
C3_Witness ==
  /\ last.result = "BufferExceeded"
  /\ numBufs >= 2
  /\ last.steps = 2 * numBufs
  /\ AllPinned

\* C4: when allocBuf selects an occupied frame, it issues exactly one writePage,
\* of the frame's content (the page the frame holds) to the frame's file, if the
\* frame is dirty, and none if it is clean; selecting an unoccupied frame writes
\* nothing.  The write is issued inside allocBuf, before the caller reuses the frame.
C4_DirtyWriteBack ==
  [][GotFrame(last') =>
       LET d == bufDescTable[last'.frame] IN
         IF d.valid /\ d.dirty
         THEN /\ last'.writes = << [file |-> d.file, page |-> bufPool[last'.frame]] >>
              /\ bufPool[last'.frame] = d.pageNo
         ELSE last'.writes = << >>]_vars

\* C4's case: a successful call evicted a dirty page and wrote it back.
C4_Witness ==
  /\ last.op \in {"readPage", "allocPage"}
  /\ last.result = "ok"
  /\ Len(last.writes) = 1

\* C5: a successful readPage(P) followed by unPinPage(P, false) leaves the pin
\* count of the frame handed out at the value P's pin count had before the fetch
\* (0 if no frame held P); and unPinPage on a resident page with pin count 0
\* fails with PageNotPinned and leaves the pin count at 0.
C5_PinUnpinSymmetry ==
  [][/\ (/\ last.op = "readPage"
         /\ last.result = "ok"
         /\ UnPinPage(last.key[1], last.key[2], FALSE))
          => bufDescTable'[last.frame].pinCnt = last.prePin
     /\ \A file \in Files, pageNo \in PageIds, dirty \in BOOLEAN :
          (/\ Resident(<<file, pageNo>>)
           /\ PinOf(bufDescTable, file, pageNo) = 0
           /\ UnPinPage(file, pageNo, dirty))
            => (last'.result = "PageNotPinned" /\ bufDescTable' = bufDescTable)]_vars

\* C6: a successful readPage or allocPage gives exactly one pin: on a directory
\* hit the frame the directory names gets one more pin and its refbit set; on a
\* miss and on allocPage the frame given ends valid, owned by the page asked
\* for, with pin count 1, refbit set and dirty clear; no other frame's pin count
\* changes.
C6_OnePin ==
  [][(last'.op \in {"readPage", "allocPage"} /\ last'.result = "ok") =>
       LET k == last'.key
           f == last'.frame
       IN /\ f \in Frames
          /\ IF last'.op = "readPage" /\ HashHas(hashTable, k)
             THEN /\ f = hashTable[k]
                  /\ bufDescTable'[f].pinCnt = bufDescTable[f].pinCnt + 1
                  /\ bufDescTable'[f].refbit
             ELSE /\ bufDescTable'[f] = [valid |-> TRUE, file |-> k[1], pageNo |-> k[2],
                                          pinCnt |-> 1, refbit |-> TRUE, dirty |-> FALSE]
                  /\ HashHas(hashTable', k)
                  /\ hashTable'[k] = f
          /\ \A g \in Frames \ {f} : bufDescTable'[g].pinCnt = bufDescTable[g].pinCnt]_vars

\* C6's case: a directory hit on a page already pinned once raised its pin count to 2.
C6_Witness ==
  /\ last.op = "readPage"
  /\ last.result = "ok"
  /\ last.steps = 0
  /\ bufDescTable[last.frame].pinCnt = 2
  /\ bufDescTable[last.frame].refbit

\* C7: after the scenario, D is resident with pin count 1, exactly one of A, B, C
\* is no longer resident and has no directory entry, the other two are resident
\* with their entries, and a write-back happened (once, of C) iff C was evicted.
C7_Scenario ==
  (pc = 7) =>
    LET abc == {scen[1], scen[2], scen[3]}
        gone == {k \in abc : ~Resident(k)}
    IN /\ last.result = "ok"
       /\ Cardinality(gone) = 1
       /\ \A k \in gone : ~HashHas(hashTable, k)
       /\ \A k \in abc \ gone : HashHas(hashTable, k) /\ hashTable[k] \in Holders(bufDescTable, k[1], k[2])
       /\ Resident(scen[4])
       /\ PinOf(bufDescTable, scen[4][1], scen[4][2]) = 1
       /\ IF scen[3] \in gone
          THEN last.writes = << [file |-> scen[3][1], page |-> scen[3][2]] >>
          ELSE last.writes = << >>

\* The frames flushFile(file) finds pinned.
PinnedOf(file) ==
  {f \in Frames : bufDescTable[f].file = file /\ bufDescTable[f].pinCnt > 0}

\* The writePage calls for the dirty frames of file among frames f..(p - 1), in frame order.
RECURSIVE DirtyBelow(_, _, _)
DirtyBelow(file, f, p) ==
  IF f >= p THEN << >>
  ELSE (IF bufDescTable[f].file = file /\ bufDescTable[f].dirty
        THEN << [file |-> file, page |-> bufPool[f]] >>
        ELSE << >>) \o DirtyBelow(file, f + 1, p)

\* C8: flushFile(file) fails with PagePinned at the first frame, in index order,
\* that file owns with a pin; the file's frames below it have been written back
\* if dirty, removed from the directory and cleared; that frame, the frames
\* above it and all other directory entries are unchanged.
C8_FlushPinned ==
  [][\A file \in Files :
       (FlushFile(file) /\ PinnedOf(file) # {}) =>
         LET p == CHOOSE f \in PinnedOf(file) : \A g \in PinnedOf(file) : f <= g
             low == {q \in Frames : q < p /\ bufDescTable[q].file = file}
         IN /\ last'.result = "PagePinned"
            /\ last'.frame = p
            /\ last'.writes = DirtyBelow(file, 0, p)
            /\ \A q \in low :
                 /\ bufDescTable'[q] = ClearedDesc
                 /\ ~HashHas(hashTable', OwnerKey(bufDescTable[q]))
            /\ \A q \in Frames \ low : bufDescTable'[q] = bufDescTable[q]
            /\ \A k \in DOMAIN hashTable \ {OwnerKey(bufDescTable[q]) : q \in low} :
                 HashHas(hashTable', k) /\ hashTable'[k] = hashTable[k]]_vars

\* C8's case: a flushFile stopped with PagePinned above a frame it had written
\* back and cleared.
C8_Witness ==
  /\ last.op = "flushFile"
  /\ last.result = "PagePinned"
  /\ Len(last.writes) >= 1
  /\ \E q \in Frames : q < last.frame /\ ~bufDescTable[q].valid
  /\ bufDescTable[last.frame].valid

\* C9: disposePage of the page a successful allocPage has just returned leaves
\* the page's frame unoccupied with pin count 0, dirty and refbit clear, leaves
\* no directory entry for the page, issues no writePage and one deletePage,
\* after which the file no longer holds the page.
C9_RoundTrip ==
  [][(/\ last.op = "allocPage"
      /\ last.result = "ok"
      /\ DisposePage(last.key[1], last.key[2]))
       => /\ ~bufDescTable'[last.frame].valid
          /\ bufDescTable'[last.frame].pinCnt = 0
          /\ ~bufDescTable'[last.frame].dirty
          /\ ~bufDescTable'[last.frame].refbit
          /\ ~HashHas(hashTable', last.key)
          /\ last'.writes = << >>
          /\ last'.deletes = 1
          /\ last.key[2] \notin filePages'[last.key[1]]]_vars

\* C9's case: a disposePage directly after the allocPage that returned the page.
C9_Witness ==
  /\ last.op = "disposePage"
  /\ last.roundTrip

\* C10: an unoccupied frame has pin count 0 and its dirty and reference bits clear.
C10_UnoccupiedFrame ==
  \A f \in Frames :
    ~bufDescTable[f].valid =>
      (bufDescTable[f].pinCnt = 0 /\ ~bufDescTable[f].dirty /\ ~bufDescTable[f].refbit)

\* The directory entries whose frame does not hold the entry's page.
Stale == {k \in DOMAIN hashTable : hashTable[k] \notin Holders(bufDescTable, k[1], k[2])}

\* C11: directory keys are unique: every key maps to one frame of the pool, no
\* call re-maps a key that is present (readPage and allocPage insert absent
\* keys only), and allocPage never ends in the directory's duplicate-key error,
\* because a page the file does not hold has no directory entry.
C11_UniqueKeys ==
  [][/\ last'.result # "HashAlreadyPresent"
     /\ \A k \in DOMAIN hashTable' :
          /\ k \in Keys
          /\ hashTable'[k] \in Frames
          /\ HashHas(hashTable, k) => hashTable'[k] = hashTable[k]
     /\ \A file \in Files, pageNo \in PageIds :
          pageNo \notin filePages'[file] => ~HashHas(hashTable', <<file, pageNo>>)]_vars

\* C11's case: allocPage inserted a new page's key while the directory still
\* held an entry left behind by an eviction.
C11_Witness ==
  /\ last.op = "allocPage"
  /\ last.result = "ok"
  /\ HashHas(hashTable, last.key)
  /\ Stale # {}

\* C12: unPinPage of a page no frame holds ends without error and leaves every
\* frame descriptor, the directory and the clock hand unchanged.
C12_UnpinAbsent ==
  [][\A file \in Files, pageNo \in PageIds, dirty \in BOOLEAN :
       (~Resident(<<file, pageNo>>) /\ UnPinPage(file, pageNo, dirty))
         => /\ last'.result = "ok"
            /\ bufDescTable' = bufDescTable
            /\ hashTable' = hashTable
            /\ clockHand' = clockHand]_vars

\* C13: disposePage ends without error, issues one deletePage, after which the
\* file no longer holds the page, and no writePage; for a page no frame holds
\* it leaves every frame descriptor and the directory entries of all other
\* pages unchanged; a page some frame holds, dirty or not, is afterwards held
\* by no frame and has no directory entry.
C13_Dispose ==
  [][\A file \in Files, pageNo \in PageIds :
       DisposePage(file, pageNo) =>
         /\ last'.result = "ok"
         /\ last'.deletes = 1
         /\ last'.writes = << >>
         /\ pageNo \notin filePages'[file]
         /\ ~HashHas(hashTable', <<file, pageNo>>)
         /\ Holders(bufDescTable', file, pageNo) = {}
         /\ \A k \in DOMAIN hashTable \ {<<file, pageNo>>} :
              HashHas(hashTable', k) /\ hashTable'[k] = hashTable[k]
         /\ ~Resident(<<file, pageNo>>) => bufDescTable' = bufDescTable]_vars

\* C14: the frame a successful readPage(file, pageNo) hands out and pins, on a
\* directory hit as on a miss, is valid, is owned by (file, pageNo) and stores
\* that page.
C14_FetchedFrame ==
  (last.op = "readPage" /\ last.result = "ok") =>
    /\ last.frame \in Frames
    /\ bufDescTable[last.frame].valid
    /\ OwnerKey(bufDescTable[last.frame]) = last.key
    /\ bufPool[last.frame] = last.key[2]

\* C15: allocBuf fails if and only if every frame is occupied and pinned: in
\* every state it would select a frame unless all frames are valid and pinned,
\* and every readPage miss and allocPage ends with BufferExceeded exactly when
\* all frames were valid and pinned before the call, and otherwise is given a
\* frame of the pool after at most 2N hand advances.
C15_OnlyWhenExhausted ==
  [][/\ AllocBuf.ok <=> ~AllPinned
     /\ (last'.op \in {"readPage", "allocPage"} /\ last'.steps > 0) =>
          /\ last'.result = "BufferExceeded" <=> AllPinned
          /\ last'.steps <= 2 * numBufs
          /\ ~AllPinned => last'.frame \in Frames]_vars

\* C15's case: on a pool of at least two frames a call was given a frame only
\* at the last of the 2N advances.
C15_Witness ==
  /\ GotFrame(last)
  /\ numBufs >= 2
  /\ last.steps = 2 * numBufs
  /\ last.frame \in Frames

\* C16: a frame that holds a page with a pin keeps it under every operation
\* addressed to another page: readPage, unPinPage and disposePage of another
\* page, allocPage (which creates another page) and flushFile of another file
\* leave the frame valid, owned by the same page, with the same content and the
\* same pin count.
C16_PinnedKeepsFrame ==
  [][\A f \in Frames :
       (bufDescTable[f].valid /\ bufDescTable[f].pinCnt > 0) =>
         LET d == bufDescTable[f]
             kept == /\ bufDescTable'[f].valid
                     /\ OwnerKey(bufDescTable'[f]) = OwnerKey(d)
                     /\ bufDescTable'[f].pinCnt = d.pinCnt
                     /\ bufPool'[f] = bufPool[f]
         IN \A file \in Files :
              /\ (file # d.file /\ FlushFile(file)) => kept
              /\ \A pageNo \in PageIds :
                   (<<file, pageNo>> # OwnerKey(d)) =>
                     /\ ReadPage(file, pageNo) => kept
                     /\ (\E dirty \in BOOLEAN : UnPinPage(file, pageNo, dirty)) => kept
                     /\ AllocPageAs(file, pageNo) => kept
                     /\ DisposePage(file, pageNo) => kept]_vars

\* C17: after a flushFile(file) that ends without error no valid frame is owned
\* by file, no directory key names file, the writePage calls issued are exactly
\* one per dirty frame of file, each carrying the page the frame holds, and the
\* descriptors of all other frames, the content of all frames and the directory
\* entries of other files are unchanged.
C17_FlushFile ==
  [][\A file \in Files :
       (FlushFile(file) /\ last'.result = "ok") =>
         /\ \A f \in Frames : ~(bufDescTable'[f].valid /\ bufDescTable'[f].file = file)
         /\ \A k \in DOMAIN hashTable' : k[1] # file
         /\ last'.writes = DirtyBelow(file, 0, numBufs)
         /\ \A f \in Frames :
              (bufDescTable[f].file = file /\ bufDescTable[f].dirty)
                => bufPool[f] = bufDescTable[f].pageNo
         /\ \A f \in Frames :
              bufDescTable[f].file # file => bufDescTable'[f] = bufDescTable[f]
         /\ \A k \in DOMAIN hashTable :
              k[1] # file => (HashHas(hashTable', k) /\ hashTable'[k] = hashTable[k])
         /\ bufPool' = bufPool]_vars

\* C18: unPinPage(file, pageNo, true) on a pinned page sets the dirty bit of the
\* frame holding it, and a valid dirty frame stays valid, dirty and owned by the
\* same page under every call, except that the call writes the frame's page
\* back to its file (eviction or flushFile) or is disposePage of that page.
C18_DirtySticky ==
  [][/\ \A file \in Files, pageNo \in PageIds :
          (PinOf(bufDescTable, file, pageNo) > 0 /\ UnPinPage(file, pageNo, TRUE))
            => \A f \in Holders(bufDescTable, file, pageNo) : bufDescTable'[f].dirty
     /\ \A f \in Frames :
          (bufDescTable[f].valid /\ bufDescTable[f].dirty) =>
            LET d == bufDescTable[f] IN
              \/ /\ bufDescTable'[f].valid
                 /\ OwnerKey(bufDescTable'[f]) = OwnerKey(d)
                 /\ bufDescTable'[f].dirty
              \/ \E i \in 1..Len(last'.writes) :
                   last'.writes[i] = [file |-> d.file, page |-> d.pageNo]
              \/ DisposePage(d.file, d.pageNo)]_vars

\* C19: a readPage or allocPage that ends with BufferExceeded leaves the
\* directory, the content of every frame and every descriptor's valid, file,
\* pageNo, pinCnt and dirty unchanged, sets no refbit, issues no writePage, and
\* leaves the hand, after exactly 2N advances, where it was.
C19_FailedSweep ==
  [][(last'.op \in {"readPage", "allocPage"} /\ last'.result = "BufferExceeded") =>
       /\ hashTable' = hashTable
       /\ bufPool' = bufPool
       /\ \A f \in Frames :
            /\ [bufDescTable'[f] EXCEPT !.refbit = FALSE]
                 = [bufDescTable[f] EXCEPT !.refbit = FALSE]
            /\ bufDescTable'[f].refbit => bufDescTable[f].refbit
       /\ last'.steps = 2 * numBufs
       /\ clockHand' = clockHand
       /\ last'.writes = << >>]_vars

\* C19's case: an allocPage failed with BufferExceeded on a pool of at least
\* two frames while a pinned frame was dirty.
C19_Witness ==
  /\ last.op = "allocPage"
  /\ last.result = "BufferExceeded"
  /\ numBufs >= 2
  /\ \E f \in Frames : bufDescTable[f].dirty /\ bufDescTable[f].pinCnt > 0

====
